---- MODULE Spec2Model ----
(***************************************************************************)
(* sharedir: share the content of one directory over HTTP.                 *)
(*                                                                         *)
(* Two programs of the repository are modelled side by side:               *)
(*   variant "sharedir" : src/sharedir.go         (parseSafePath + policy) *)
(*   variant "httpfs"   : src/unnamed/part_000    (inline check, no policy)*)
(* A string is a sequence of one-character strings, so that prefix tests,  *)
(* trimming and replacement work on characters as the Go code does.        *)
(***************************************************************************)
EXTENDS Integers, Sequences, FiniteSets, TLC

(***************************************************************************)
(* strings                                                                 *)
(***************************************************************************)
SL == <<"/">>

\* strings.HasPrefix
HasPrefix(s, p) ==
    /\ Len(p) <= Len(s)
    /\ SubSeq(s, 1, Len(p)) = p

\* strings.TrimPrefix
TrimPrefix(s, p) ==
    IF HasPrefix(s, p) THEN SubSeq(s, Len(p) + 1, Len(s)) ELSE s

\* strings.ReplaceAll: left to right, non-overlapping, for a non-empty old
RECURSIVE ReplaceAll(_, _, _)
ReplaceAll(s, old, new) ==
    IF s = <<>> THEN <<>>
    ELSE IF HasPrefix(s, old)
         THEN new \o ReplaceAll(SubSeq(s, Len(old) + 1, Len(s)), old, new)
         ELSE <<Head(s)>> \o ReplaceAll(Tail(s), old, new)

\* strings.Split(s, "/"): the segments between separators (empty ones kept)
RECURSIVE SplitAt(_, _, _)
SplitAt(s, sep, cur) ==
    IF s = <<>> THEN <<cur>>
    ELSE IF Head(s) = sep
         THEN <<cur>> \o SplitAt(Tail(s), sep, <<>>)
         ELSE SplitAt(Tail(s), sep, Append(cur, Head(s)))

Split(s, sep) == SplitAt(s, sep, <<>>)

RECURSIVE JoinSegs(_)
JoinSegs(segs) ==
    IF segs = <<>> THEN <<>>
    ELSE IF Len(segs) = 1 THEN segs[1]
         ELSE segs[1] \o SL \o JoinSegs(Tail(segs))

(***************************************************************************)
(* html.UnescapeString, on the entities of EntityTable: one pass, the      *)
(* replacement text is not scanned again.                                  *)
(***************************************************************************)
EntityTable ==
    { <<<<"&", "#", "4", "6", ";">>, <<".">>>>,
      <<<<"&", "#", "4", "7", ";">>, <<"/">>>>,
      <<<<"&", "#", "3", "7", ";">>, <<"%">>>> }

RECURSIVE UnescapeString(_)
UnescapeString(s) ==
    IF s = <<>> THEN <<>>
    ELSE LET hit == {e \in EntityTable : HasPrefix(s, e[1])}
         IN  IF hit # {}
             THEN LET e == CHOOSE x \in hit : TRUE
                  IN  e[2] \o UnescapeString(SubSeq(s, Len(e[1]) + 1, Len(s)))
             ELSE <<Head(s)>> \o UnescapeString(Tail(s))

(***************************************************************************)
(* path/filepath (Unix)                                                    *)
(***************************************************************************)
IsAbs(p) == p # <<>> /\ p[1] = "/"

\* the element stack of filepath.Clean after reading the segments `segs`
RECURSIVE CleanStack(_, _, _)
CleanStack(segs, rooted, out) ==
    IF segs = <<>> THEN out
    ELSE LET e == Head(segs)
             rest == Tail(segs)
         IN  IF e = <<>> \/ e = <<".">>
             THEN CleanStack(rest, rooted, out)
             ELSE IF e = <<".", ".">>
                  THEN IF out # <<>> /\ out[Len(out)] # <<".", ".">>
                       THEN CleanStack(rest, rooted, SubSeq(out, 1, Len(out) - 1))
                       ELSE IF rooted
                            THEN CleanStack(rest, rooted, out)
                            ELSE CleanStack(rest, rooted, Append(out, e))
                  ELSE CleanStack(rest, rooted, Append(out, e))

\* filepath.Clean
Clean(p) ==
    IF p = <<>> THEN <<".">>
    ELSE LET rooted == IsAbs(p)
             st == CleanStack(Split(p, "/"), rooted, <<>>)
             body == JoinSegs(st)
         IN  IF rooted THEN SL \o body
             ELSE IF body = <<>> THEN <<".">> ELSE body

\* filepath.Join of two elements: empty elements are ignored
Join(a, b) ==
    IF a = <<>> /\ b = <<>> THEN <<>>
    ELSE IF a = <<>> THEN Clean(b)
         ELSE IF b = <<>> THEN Clean(a)
              ELSE Clean(a \o SL \o b)

\* os.Getwd of the server process
Cwd == SL

\* filepath.Abs: [path, err]; err only when the working directory is needed
\* and unavailable, which an absolute argument never needs
Abs(p) ==
    IF IsAbs(p) THEN [path |-> Clean(p), err |-> FALSE]
    ELSE [path |-> Join(Cwd, p), err |-> FALSE]

RECURSIVE LastIndex(_, _)
LastIndex(s, c) ==
    IF s = <<>> THEN 0
    ELSE IF s[Len(s)] = c THEN Len(s)
         ELSE LastIndex(SubSeq(s, 1, Len(s) - 1), c)

\* filepath.Dir
Dir(p) == Clean(SubSeq(p, 1, LastIndex(p, "/")))

\* filepath.Base of a cleaned path
Base(p) == SubSeq(p, LastIndex(p, "/") + 1, Len(p))

\* filepath.Ext: the suffix from the last dot of the last element
Ext(p) ==
    LET b == Base(p)
        i == LastIndex(b, ".")
    IN  IF i = 0 THEN <<>> ELSE SubSeq(b, i, Len(b))

(***************************************************************************)
(* the filesystem the server runs on                                       *)
(***************************************************************************)
nData   == <<"d", "a", "t", "a">>
nData2  == <<"d", "a", "t", "a", "2">>
nSub    == <<"s", "u", "b">>
nIn     == <<"i", "n">>
nPriv   == <<"p", "r", "i", "v">>
nEtc    == <<"e", "t", "c">>
nBin    == <<"b", "i", "n">>
nA      == <<"a", ".", "t", "x", "t">>
nB      == <<"b", ".", "t", "x", "t">>
nK      == <<"k", ".", "b", "i", "n">>
nMD     == <<"m", " ", "d">>
nX      == <<"x">>
nPw     == <<"p", "w">>
nIco    == <<"s", "h", "a", "r", "e", "d", "i", "r", ".", "i", "c", "o">>
DotDot  == <<".", ".">>

\* the absolute path made of the segments `segs`
P(segs) == SL \o JoinSegs(segs)

\* kind "d" directory, "f" regular file; ok = FALSE: an entry the server's
\* user may stat but not read (os.ReadFile / os.ReadDir fail on it)
Entry(segs, kind, ok) == [path |-> P(segs), kind |-> kind, ok |-> ok]

FS ==
    { Entry(<<>>, "d", TRUE),
      Entry(<<nData>>, "d", TRUE),
      Entry(<<nData, nA>>, "f", TRUE),
      Entry(<<nData, nK>>, "f", FALSE),
      Entry(<<nData, nMD>>, "f", TRUE),
      Entry(<<nData, nPriv>>, "d", FALSE),
      Entry(<<nData, nSub>>, "d", TRUE),
      Entry(<<nData, nSub, nB>>, "f", TRUE),
      Entry(<<nData, nSub, nIn>>, "d", TRUE),
      Entry(<<nData, nSub, nIn, nX>>, "f", TRUE),
      Entry(<<nData2>>, "d", TRUE),
      Entry(<<nData2, nX>>, "f", TRUE),
      Entry(<<nEtc>>, "d", TRUE),
      Entry(<<nEtc, nPw>>, "f", TRUE),
      Entry(<<nBin>>, "d", TRUE),
      Entry(<<nBin, nIco>>, "f", TRUE) }

Paths == {e.path : e \in FS}

EntryAt(p) == CHOOSE e \in FS : e.path = p

\* os.Stat: err when there is no entry, else whether it is a directory
Stat(p) ==
    IF p \in Paths THEN [err |-> FALSE, isDir |-> EntryAt(p).kind = "d"]
    ELSE [err |-> TRUE, isDir |-> FALSE]

\* os.ReadFile: err for a missing entry, a directory or an unreadable file
ReadFile(p) ==
    [err |-> ~(p \in Paths /\ EntryAt(p).kind = "f" /\ EntryAt(p).ok)]

\* os.ReadDir: err for a missing entry, a file or an unreadable directory;
\* the names of the entries directly inside p
ReadDir(p) ==
    IF p \in Paths /\ EntryAt(p).kind = "d" /\ EntryAt(p).ok
    THEN [err |-> FALSE,
          names |-> {Base(e.path) : e \in {x \in FS : x.path # p /\ Dir(x.path) = p}}]
    ELSE [err |-> TRUE, names |-> {}]

(***************************************************************************)
(* bounds of the model                                                     *)
(***************************************************************************)
\* longest request path, in segments, drawn from SegAlphabet
MaxSegs == 3
\* connections handled at the same time under SpecConc
NumConns == 2

Conns == 1 .. NumConns

(***************************************************************************)
(* state                                                                   *)
(***************************************************************************)
VARIABLES
    variant,      \* which program runs: "sharedir" or "httpfs"
    root,         \* root of the shared directory (root / rootDir)
    recursive,    \* recursive mode (-r)
    home,         \* directory of the executable (template and icon)
    tplInstalled, \* whether template.html is present in home
    running,      \* the server process is alive
    pc,           \* per connection: "idle", "accepted", "done", "exited", "aborted"
    uri,          \* per connection: r.RequestURI
    client,       \* per connection: the client stays connected while written to
    call,         \* per connection: the function serve handed the request to
    resp          \* per connection: the http.ResponseWriter

vars == <<variant, root, recursive, home, tplInstalled, running,
          pc, uri, client, call, resp>>

(***************************************************************************)
(* net/http ResponseWriter: the status line and the headers are committed  *)
(* by the first WriteHeader or Write; the header map may still be changed  *)
(* afterwards but nothing of that reaches the client.  A response          *)
(* committed without a Content-Type gets one from the transport (Sniffed). *)
(***************************************************************************)
Sniffed   == "sniffed by net/http"
TextPlain == "text/plain; charset=utf-8"
TextHtml  == "text/html; charset=utf-8"
OctetStream == "application/octet-stream"

NoBody == [kind |-> "none", path |-> <<>>, links |-> {}]
MsgBody(m) == [kind |-> m, path |-> <<>>, links |-> {}]
FileBody(p) == [kind |-> "file", path |-> p, links |-> {}]
ListBody(p, l) == [kind |-> "listing", path |-> p, links |-> l]

NewWriter ==
    [status |-> 0, wireCT |-> "", hdrCT |-> "", calls |-> <<>>, body |-> NoBody]

Commit(w, code) ==
    IF w.status # 0 THEN w
    ELSE [w EXCEPT !.status = code,
                   !.wireCT = IF w.hdrCT = "" THEN Sniffed ELSE w.hdrCT]

WriteHeader(w, code) ==
    [Commit(w, code) EXCEPT !.calls = Append(@, "WriteHeader")]

HeaderSet(w, ct) ==
    [w EXCEPT !.hdrCT = ct, !.calls = Append(@, "Header.Set")]

\* Write commits status 200 if nothing is committed yet; the body reaches
\* the client only when the connection is still open (ok)
Write(w, body, ok) ==
    LET c == Commit(w, 200)
    IN  [c EXCEPT !.calls = Append(@, "Write"),
                  !.body = IF ok /\ c.body = NoBody THEN body ELSE c.body]

(***************************************************************************)
(* src/sharedir.go                                                         *)
(***************************************************************************)
Pct20 == <<"%", "2", "0">>
Pct28 == <<"%", "2", "8">>
Pct29 == <<"%", "2", "9">>

NilPath == [nil |-> TRUE, abs |-> <<>>, rel |-> <<>>]

\* the containment test of parseSafePath
inRoot(abs) == HasPrefix(abs, root)

\* sp.rel as parseSafePath derives it from sp.abs
relOf(abs) ==
    IF abs # root THEN TrimPrefix(TrimPrefix(abs, root), SL) ELSE <<>>

\* the unescaping steps of parseSafePath
unescapeRaw(raw) ==
    LET r1 == TrimPrefix(raw, SL)
        r2 == UnescapeString(r1)
        r3 == ReplaceAll(r2, Pct20, <<" ">>)
        r4 == ReplaceAll(r3, Pct28, <<"(">>)
    IN  ReplaceAll(r4, Pct29, <<")">>)

parseSafePath(raw) ==
    LET a == Abs(Join(root, unescapeRaw(raw)))
    IN  IF a.err THEN NilPath
        ELSE IF ~inRoot(a.path) THEN NilPath
             ELSE [nil |-> FALSE, abs |-> a.path, rel |-> relOf(a.path)]

\* mime.TypeByExtension, on the extensions of the model's files
TypeByExtension(ext) ==
    IF ext = <<".", "t", "x", "t">> THEN TextPlain
    ELSE IF ext = <<".", "h", "t", "m", "l">> THEN TextHtml
         ELSE ""

guessMimeType(fp) ==
    LET ext == Ext(fp)
        mimet == IF ext # <<>> THEN TypeByExtension(ext) ELSE ""
    IN  IF mimet # "" THEN mimet ELSE OctetStream

serveFailure(w, code, message, ok) ==
    Write(HeaderSet(WriteHeader(w, code), TextPlain), MsgBody(message), ok)

\* the functions below give [w: the writer afterwards, fatal: log.Fatalf ran]
serveFile(w, p, ok) ==
    IF ReadFile(p.abs).err
    THEN [w |-> serveFailure(w, 500, "server error", ok), fatal |-> FALSE]
    ELSE LET w1 == Write(w, FileBody(p.abs), ok)
         IN  IF ~ok
             THEN [w |-> serveFailure(w1, 500, "server error", ok), fatal |-> FALSE]
             ELSE [w |-> HeaderSet(w1, guessMimeType(p.rel)), fatal |-> FALSE]

iconPath == [nil |-> FALSE, abs |-> Join(home, nIco), rel |-> <<>>]

serveIcon(w, ok) == serveFile(w, iconPath, ok)

\* a faulty href: the link is built from the absolute path
href_fromAbs(p, n) == Join(p.abs, n)

\* the "href" function of serveDir's template
href(p, n) == IF p.rel = <<>> THEN n ELSE Join(p.rel, n)

\* template.html: one row, with one link href(name), per entry of .Content
Render(p, names) == {href(p, n) : n \in names}

serveDir(w, p, ok) ==
    LET rd == ReadDir(p.abs)
    IN  IF rd.err THEN [w |-> w, fatal |-> TRUE]
        ELSE IF ~tplInstalled THEN [w |-> w, fatal |-> TRUE]
             ELSE LET w1 == Write(w, ListBody(p.abs, Render(p, rd.names)), ok)
                  IN  IF ~ok THEN [w |-> w1, fatal |-> TRUE]
                      ELSE [w |-> HeaderSet(w1, TextHtml), fatal |-> FALSE]

FaviconURI == SL \o <<"~", "f", "a", "v", "i", "c", "o", "n", ".", "i", "c", "o">>

\* the access policy of serve
dirAllowed(sp) == recursive \/ sp.abs = root
\* a faulty fileAllowed: the recursive flag is not consulted
fileAllowed_flatOnly(sp) == Dir(sp.abs) = root

fileAllowed(sp) == recursive \/ Dir(sp.abs) = root

Handled(fn, sp, r) == [fn |-> fn, abs |-> sp.abs, rel |-> sp.rel, w |-> r.w, fatal |-> r.fatal]
Failed(sp, code, message, ok) ==
    [fn |-> "serveFailure", abs |-> sp.abs, rel |-> sp.rel,
     w |-> serveFailure(NewWriter, code, message, ok), fatal |-> FALSE]

\* func serve of src/sharedir.go, for RequestURI u
serveH(u, ok) ==
    IF u = FaviconURI
    THEN Handled("serveIcon", iconPath, serveIcon(NewWriter, ok))
    ELSE LET sp == parseSafePath(u)
         IN  IF sp.nil THEN Failed(sp, 400, "invalid path", ok)
             ELSE LET inf == Stat(sp.abs)
                  IN  IF inf.err THEN Failed(sp, 404, "invalid path", ok)
                      ELSE IF inf.isDir /\ dirAllowed(sp)
                           THEN Handled("serveDir", sp, serveDir(NewWriter, sp, ok))
                           ELSE IF ~inf.isDir /\ fileAllowed(sp)
                                THEN Handled("serveFile", sp, serveFile(NewWriter, sp, ok))
                                ELSE Failed(sp, 401, "unauthorized", ok)

(***************************************************************************)
(* src/unnamed/part_000 (the "httpfs" program): same pipeline, written     *)
(* inline; names that clash with src/sharedir.go carry the prefix httpfs_  *)
(***************************************************************************)
getMimeType(fn) ==
    LET parts == Split(fn, ".")
        mtype == IF Len(parts) > 1
                 THEN TypeByExtension(<<".">> \o parts[Len(parts)])
                 ELSE ""
    IN  IF mtype = "" THEN OctetStream ELSE mtype

serveReject(w, s, msg, ok) ==
    Write(HeaderSet(WriteHeader(w, s), TextPlain), MsgBody(msg), ok)

httpfs_serveFile(w, fp, ok) ==
    LET mtype == getMimeType(fp)
    IN  IF ReadFile(fp).err
        THEN [w |-> serveReject(w, 500, "error", ok), fatal |-> FALSE]
        ELSE LET w1 == Write(w, FileBody(fp), ok)
             IN  IF ~ok
                 THEN [w |-> serveReject(w1, 500, "error", ok), fatal |-> FALSE]
                 ELSE [w |-> HeaderSet(w1, mtype), fatal |-> FALSE]

httpfs_serveDir(w, dir, subdir, ok) ==
    LET rd == ReadDir(dir)
    IN  IF rd.err THEN [w |-> w, fatal |-> TRUE]
        ELSE LET res == ListBody(dir, {Join(subdir, n) : n \in rd.names})
                 w1 == HeaderSet(WriteHeader(w, 200), TextHtml)
                 w2 == Write(w1, res, ok)
             IN  [w |-> w2, fatal |-> ~ok]

httpfs_inRoot(target) == HasPrefix(target, root)

httpfs_Rejected(target, code, msg, ok) ==
    [fn |-> "serveReject", abs |-> target, rel |-> <<>>,
     w |-> serveReject(NewWriter, code, msg, ok), fatal |-> FALSE]

\* func serve of src/unnamed/part_000, for RequestURI u
httpfs_serveH(u, ok) ==
    LET a == Abs(Join(root, u))
        target == a.path
        sp == [abs |-> target, rel |-> <<>>]
    IN  IF a.err THEN httpfs_Rejected(<<>>, 400, "bad target path", ok)
        ELSE IF ~httpfs_inRoot(target)
             THEN httpfs_Rejected(target, 401, "unauthorized path", ok)
             ELSE LET info == Stat(target)
                  IN  IF info.err
                      THEN httpfs_Rejected(target, 404, "target not found", ok)
                      ELSE IF ~info.isDir
                           THEN Handled("serveFile", sp, httpfs_serveFile(NewWriter, target, ok))
                           ELSE Handled("serveDir", sp, httpfs_serveDir(NewWriter, target, u, ok))

(***************************************************************************)
(* requests                                                                *)
(***************************************************************************)
SegAlphabet == {DotDot, nSub, nA, nData2, nX}

SegSeqs(n) == UNION {[1 .. k -> SegAlphabet] : k \in 0 .. n}

Ent46 == <<"&", "#", "4", "6", ";">>

ExtraURIs ==
    { FaviconURI,
      SL \o Ent46 \o Ent46 \o SL \o nData2 \o SL \o nX,
      SL \o <<"m">> \o Pct20 \o <<"d">>,
      P(<<nPriv>>),
      P(<<nK>>),
      P(<<DotDot, nEtc, nPw>>),
      P(<<nB>>),
      P(<<nSub, nB>>),
      P(<<nSub, nIn>>),
      P(<<nSub, nIn, nX>>) }

URIs == {P(q) : q \in SegSeqs(MaxSegs)} \cup ExtraURIs

\* the requests of the concurrent specification
ConcURIs ==
    { SL, P(<<nA>>), P(<<nSub, nB>>), P(<<nPriv>>), P(<<DotDot, nData2, nX>>) }

Roots == {P(<<nData>>), P(<<nData, nSub>>)}

NoCall == [fn |-> "", abs |-> <<>>, rel |-> <<>>]

(***************************************************************************)
(* the state machine                                                       *)
(***************************************************************************)
\* func main: the globals are set once, before ListenAndServe
Init ==
    /\ variant \in {"sharedir", "httpfs"}
    /\ root \in Roots
    /\ recursive \in BOOLEAN
    /\ home = P(<<nBin>>)
    /\ tplInstalled \in BOOLEAN
    /\ running = TRUE
    /\ pc = [c \in Conns |-> "idle"]
    /\ uri = [c \in Conns |-> <<>>]
    /\ client = [c \in Conns |-> TRUE]
    /\ call = [c \in Conns |-> NoCall]
    /\ resp = [c \in Conns |-> NewWriter]

\* net/http accepts a request and starts a goroutine for its handler
Receive(c, u, k) ==
    /\ running
    /\ pc[c] = "idle"
    /\ pc' = [pc EXCEPT ![c] = "accepted"]
    /\ uri' = [uri EXCEPT ![c] = u]
    /\ client' = [client EXCEPT ![c] = k]
    /\ UNCHANGED <<variant, root, recursive, home, tplInstalled, running, call, resp>>

\* the handler of connection c has run and given h; log.Fatalf ends the
\* process, and with it every handler that is still to run
Finish(c, h) ==
    /\ call' = [call EXCEPT ![c] = [fn |-> h.fn, abs |-> h.abs, rel |-> h.rel]]
    /\ resp' = [resp EXCEPT ![c] = h.w]
    /\ running' = ~h.fatal
    /\ pc' = IF h.fatal
             THEN [x \in Conns |->
                     IF x = c THEN "exited"
                     ELSE IF pc[x] = "accepted" THEN "aborted" ELSE pc[x]]
             ELSE [pc EXCEPT ![c] = "done"]
    /\ UNCHANGED <<variant, root, recursive, home, tplInstalled, uri, client>>

serve(c) ==
    /\ running
    /\ variant = "sharedir"
    /\ pc[c] = "accepted"
    /\ Finish(c, serveH(uri[c], client[c]))

httpfs_serve(c) ==
    /\ running
    /\ variant = "httpfs"
    /\ pc[c] = "accepted"
    /\ Finish(c, httpfs_serveH(uri[c], client[c]))

\* the response is complete and the connection is ready for the next request
Close(c) ==
    /\ running
    /\ pc[c] = "done"
    /\ pc' = [pc EXCEPT ![c] = "idle"]
    /\ uri' = [uri EXCEPT ![c] = <<>>]
    /\ client' = [client EXCEPT ![c] = TRUE]
    /\ call' = [call EXCEPT ![c] = NoCall]
    /\ resp' = [resp EXCEPT ![c] = NewWriter]
    /\ UNCHANGED <<variant, root, recursive, home, tplInstalled, running>>

\* one connection, every request path of URIs
Next ==
    \/ \E u \in URIs, k \in BOOLEAN : Receive(1, u, k)
    \/ serve(1)
    \/ httpfs_serve(1)
    \/ Close(1)

Spec == Init /\ [][Next]_vars

\* NumConns connections at once, the request paths of ConcURIs
NextConc ==
    \/ \E c \in Conns, u \in ConcURIs, k \in BOOLEAN : Receive(c, u, k)
    \/ \E c \in Conns : serve(c)
    \/ \E c \in Conns : httpfs_serve(c)
    \/ \E c \in Conns : Close(c)

SpecConc == Init /\ [][NextConc]_vars

(***************************************************************************)
(* vocabulary of the properties                                            *)
(***************************************************************************)
\* the handler of connection c has run
Finished(c) == pc[c] \in {"done", "exited"}

\* serve handed the request of c to serveFile or serveDir
Dispatched(c) == call[c].fn \in {"serveFile", "serveDir"}

\* p is Root or lies under Root on a path-segment boundary
Contained(p) == p = root \/ HasPrefix(p, root \o SL)

\* the absolute path the request path u resolves to, before any check
Candidate(u) ==
    IF variant = "sharedir" THEN Abs(Join(root, unescapeRaw(u))).path
    ELSE Abs(Join(root, u)).path

IsFile(p) == p \in Paths /\ ~Stat(p).isDir
IsDirectory(p) == p \in Paths /\ Stat(p).isDir

\* the decision table of the access policy
PolicyAllows(p) ==
    \/ recursive
    \/ IsDirectory(p) /\ p = root
    \/ IsFile(p) /\ Dir(p) = root

\* C1: a request other than the reserved favicon path is handed to
\* serveFile/serveDir only with a path that is Root or lies under Root on a
\* segment boundary; every other request is rejected.
C1_ServedPathContained ==
    \A c \in Conns :
        (Finished(c) /\ uri[c] # FaviconURI /\ Dispatched(c))
            => Contained(call[c].abs)

\* C2: a candidate that has Root as a mere string prefix (not Root, not under
\* Root + separator) is rejected as Unauthorized and never served.
C2_SiblingPrefixRejected ==
    \A c \in Conns :
        LET p == Candidate(uri[c])
        IN  (Finished(c) /\ uri[c] # FaviconURI /\ HasPrefix(p, root) /\ ~Contained(p))
                => (~Dispatched(c) /\ resp[c].status = 401)

\* C3: in non-recursive mode an existing target under Root is served iff it is
\* Root itself or a file whose parent is Root; any other existing target is
\* answered 401 and no content is served.
C3_NonRecursivePolicy ==
    \A c \in Conns :
        LET p == Candidate(uri[c])
            direct == p = root \/ (IsFile(p) /\ Dir(p) = root)
        IN  (Finished(c) /\ uri[c] # FaviconURI /\ ~recursive
                /\ p \in Paths /\ Contained(p))
                => /\ Dispatched(c) <=> direct
                   /\ ~direct => (resp[c].status = 401
                                  /\ resp[c].body.kind \notin {"file", "listing"})

\* C3, for the program of src/sharedir.go alone (it holds there)
C3_NonRecursivePolicy_sharedir == variant = "sharedir" => C3_NonRecursivePolicy

\* C4: in recursive mode every existing file and directory under Root, at any
\* depth, is handed to serveFile (file) or serveDir (directory) with its own
\* path and is never answered 401.
C4_RecursiveAllowsAll ==
    \A c \in Conns :
        LET p == Candidate(uri[c])
        IN  (Finished(c) /\ uri[c] # FaviconURI /\ recursive
                /\ p \in Paths /\ Contained(p))
                => /\ call[c].fn = IF IsFile(p) THEN "serveFile" ELSE "serveDir"
                   /\ call[c].abs = p
                   /\ resp[c].status # 401

\* a file two levels below Root was served in recursive mode by src/sharedir.go
C4_Witness ==
    \E c \in Conns :
        /\ pc[c] = "done" /\ recursive /\ variant = "sharedir"
        /\ root = P(<<nData>>)
        /\ call[c].fn = "serveFile"
        /\ call[c].abs = P(<<nData, nSub, nIn, nX>>)
        /\ resp[c].status = 200
        /\ resp[c].body = FileBody(P(<<nData, nSub, nIn, nX>>))

\* the read, list or render step of an allowed target fails
IOFails(p) ==
    \/ IsFile(p) /\ ReadFile(p).err
    \/ IsDirectory(p) /\ (ReadDir(p).err \/ (variant = "sharedir" /\ ~tplInstalled))

\* C5: every rejection carries the status of its failure kind, in pipeline
\* order: outside Root 401 (not 400), no entry 404, policy violation 401,
\* read/list/render failure after authorization 500.
C5_StatusByFailureKind ==
    \A c \in Conns :
        LET p == Candidate(uri[c])
        IN  (Finished(c) /\ uri[c] # FaviconURI)
                => /\ ~Contained(p) => resp[c].status = 401
                   /\ (Contained(p) /\ p \notin Paths) => resp[c].status = 404
                   /\ (Contained(p) /\ p \in Paths /\ ~PolicyAllows(p))
                          => resp[c].status = 401
                   /\ (Contained(p) /\ p \in Paths /\ PolicyAllows(p) /\ IOFails(p))
                          => resp[c].status = 500

\* no Header.Set follows a WriteHeader or a Write in the calls made on a writer
RECURSIVE SetBeforeCommit(_)
SetBeforeCommit(calls) ==
    \/ calls = <<>>
    \/ /\ ~(Head(calls) \in {"WriteHeader", "Write"}
            /\ \E i \in 1 .. Len(Tail(calls)) : Tail(calls)[i] = "Header.Set")
       /\ SetBeforeCommit(Tail(calls))

\* the Content-Type a response should carry
ExpectedType(c) ==
    IF resp[c].body.kind = "file" THEN guessMimeType(resp[c].body.path)
    ELSE IF resp[c].body.kind = "listing" THEN TextHtml
         ELSE TextPlain

\* C6: in every response Content-Type is set before the response is committed
\* and the committed response carries it: the guessed media type for a file,
\* text/html for a listing, text/plain for an error.
C6_ContentTypeBeforeCommit ==
    \A c \in Conns :
        (Finished(c) /\ resp[c].status # 0)
            => /\ SetBeforeCommit(resp[c].calls)
               /\ resp[c].wireCT = ExpectedType(c)

\* C7: no request terminates the server process, and a failed read, list or
\* render is answered with a 500 response.
C7_ServerKeepsRunning ==
    /\ running
    /\ \A c \in Conns :
           LET p == Candidate(uri[c])
           IN  (Finished(c) /\ Dispatched(c) /\ IOFails(p)) => resp[c].status = 500

\* the request path a client sends for a link of the listing of "/"
LinkURI(l) == SL \o ReplaceAll(l, <<" ">>, Pct20)

\* the access policy lets the request path u through to serveFile/serveDir
Allowed(u) == serveH(u, TRUE).fn \in {"serveFile", "serveDir"}

\* connection c holds the listing src/sharedir.go returned for GET /
RootListing(c) ==
    /\ variant = "sharedir"
    /\ pc[c] = "done"
    /\ uri[c] = SL
    /\ resp[c].body.kind = "listing"

\* C8 as claimed: the listing of "/" has one entry per immediate child of
\* Root, and the link of every entry is allowed when requested, in
\* non-recursive mode as well as in recursive mode.
C8_EveryLinkAllowed ==
    \A c \in Conns :
        RootListing(c)
            => /\ resp[c].body.links = ReadDir(root).names
               /\ \A l \in resp[c].body.links : Allowed(LinkURI(l))

\* C8 as amended: one entry per immediate child of Root; the link of an
\* entry is allowed when requested unless the mode is non-recursive and the
\* entry is a directory, and then it is answered 401.
C8_LinksAllowedByMode ==
    \A c \in Conns :
        RootListing(c)
            => /\ resp[c].body.links = ReadDir(root).names
               /\ Cardinality(resp[c].body.links)
                    = Cardinality({e \in FS : e.path # root /\ Dir(e.path) = root})
               /\ \A l \in resp[c].body.links :
                    IF recursive \/ IsFile(Join(root, l))
                    THEN Allowed(LinkURI(l))
                    ELSE serveH(LinkURI(l), TRUE).w.status = 401

\* a non-recursive listing of /data holding a directory and a file of Root
C8_Witness ==
    \E c \in Conns :
        /\ RootListing(c) /\ ~recursive /\ root = P(<<nData>>)
        /\ nSub \in resp[c].body.links
        /\ nMD \in resp[c].body.links
        /\ Cardinality(resp[c].body.links) = 5

\* the result of the request of c when it runs alone
Alone(c) ==
    IF variant = "sharedir" THEN serveH(uri[c], client[c])
    ELSE httpfs_serveH(uri[c], client[c])

\* C9: under any interleaving every request that was accepted gets the outcome
\* (status and served target) it gets when it runs alone.
C9_RequestsIndependent ==
    \A c \in Conns :
        pc[c] \in {"done", "exited", "aborted"}
            => /\ resp[c].status = Alone(c).w.status
               /\ resp[c].body = Alone(c).w.body

\* C9, first half (it holds): no step writes root, recursive or home
C9_ConfigNeverWritten ==
    [][root' = root /\ recursive' = recursive /\ home' = home]_vars

\* C10: the fields of a safePath returned by parseSafePath agree: rel is empty
\* exactly when abs is Root, rel starts with no separator, and
\* Join(root, rel) = abs.
C10_SafePathFieldsAgree ==
    \A c \in Conns :
        (Finished(c) /\ variant = "sharedir" /\ uri[c] # FaviconURI
            /\ call[c].abs # <<>>)
            => /\ call[c].rel = <<>> <=> call[c].abs = root
               /\ ~HasPrefix(call[c].rel, SL)
               /\ Join(root, call[c].rel) = call[c].abs

====
